---- MODULE Spec2Model ----
(***************************************************************************)
(* Model of FisheyeToEquirectangular: the projection map constructor and   *)
(* the stereo blender of fisheye.py, and the dual-stream frame loop of     *)
(* unwarp.py main().                                                       *)
(*                                                                         *)
(* Two specifications:                                                     *)
(*   Spec      - the pipeline of unwarp.py main(), lines 131-223           *)
(*   FrameSpec - FisheyeToEquirectangular.__init__ and unwarp_pair as pure *)
(*               functions of inputs drawn from bounded sets               *)
(*                                                                         *)
(* Arithmetic is exact: a linspace weight is kept as a numerator over the  *)
(* denominator num-1, a map coordinate as a multiple of 1/(2*Q).           *)
(***************************************************************************)
EXTENDS Integers, Sequences, FiniteSets, TLC

VARIABLES args, src, pc, i, leftPos, rightPos, sink, unwarp, procs, err,
          ctor, self, out, fpc

vars == <<args, src, pc, i, leftPos, rightPos, sink, unwarp, procs, err,
          ctor, self, out, fpc>>

pipeVars == <<args, src, pc, i, leftPos, rightPos, sink, unwarp, procs, err>>
frameVars == <<ctor, self, out, fpc>>

(* ---- bounds ---- *)
MaxHeight == 4
MaxBlend == 2
MaxAperture == 2
MaxSkip == 2
MaxFrames == 2
MaxLen == 4
MaxN == 8
MaxB == 3
MaxSide == 2
Q == 2

Min(a, b) == IF a < b THEN a ELSE b
Max(a, b) == IF a > b THEN a ELSE b

(***************************************************************************)
(* Python / numpy primitives used by fisheye.py                            *)
(***************************************************************************)

(* a[lo:hi] index normalisation of a slice bound v on an axis of length W *)
SliceBound(W, v) == IF v < 0 THEN Max(v + W, 0) ELSE Min(v, W)

(* 0-based column indices selected by a[:, s:e] on an axis of length W;    *)
(* an omitted start is passed as 0 and an omitted stop as W                *)
PySlice(W, s, e) ==
    LET lo == SliceBound(W, s)
        hi == SliceBound(W, e)
    IN  IF lo < hi THEN [k \in 1..(hi - lo) |-> lo + k - 1] ELSE <<>>

(* the elements seq[s:e] of a sequence, by Python slicing *)
SeqSlice(seq, s, e) ==
    LET idx == PySlice(Len(seq), s, e)
    IN  [k \in 1..Len(idx) |-> seq[idx[k] + 1]]

(* np.linspace(start, stop, num) for integer start, stop:                  *)
(* raises for num < 0, else value number k equals w[k]/den                 *)
Linspace(start, stop, num) ==
    IF num < 0 THEN [ok |-> FALSE, den |-> 1, w |-> <<>>]
    ELSE IF num <= 1
    THEN [ok |-> TRUE, den |-> 1, w |-> [k \in 1..num |-> start]]
    ELSE [ok |-> TRUE, den |-> num - 1,
          w |-> [k \in 1..num |-> start * (num - 1) + (k - 1) * (stop - start)]]

(* numpy broadcasting of two axis lengths; -1 when they do not broadcast *)
Broadcast(k, m) ==
    IF k = m THEN k
    ELSE IF k = 1 THEN m
    ELSE IF m = 1 THEN k
    ELSE -1

(* index read on an axis of length k when it is broadcast *)
BIdx(j, k) == IF k = 1 THEN 1 ELSE j

(* Clip without the clamp *)
Clip_NoClamp(v) == v

(* np.clip(x, -1, 1) on a value in units of 1/Q *)
Clip(v) == IF v < -Q THEN -Q ELSE IF v > Q THEN Q ELSE v

(***************************************************************************)
(* fisheye.py: FisheyeToEquirectangular                                    *)
(***************************************************************************)

NoObject == [ok |-> FALSE]

x_samples(n, blending) == Linspace(0, 1, n + blending * 2)
y_samples(n) == Linspace(-1, 1, n)

(* __init__: the object built for (n, side, blending, aperture), or        *)
(* NoObject when the constructor raises (blending / n with n = 0, or a     *)
(* negative sample count given to np.linspace).  rows and cols are the     *)
(* shape of self.x and self.y, the meshgrid of y_samples by x_samples.     *)
FisheyeInit(n, side, blending, aperture) ==
    IF n = 0 THEN NoObject
    ELSE IF ~x_samples(n, blending).ok \/ ~y_samples(n).ok THEN NoObject
    ELSE [ok |-> TRUE,
          blending |-> blending,
          rows |-> Len(y_samples(n).w),
          cols |-> Len(x_samples(n, blending).w),
          side |-> side,
          aperture |-> aperture]

(* r = 2 * arctan2(sqrt(..), Py) / (aperture * pi) with arctan2 in [0, pi]:*)
(* r, and so r*cos(theta) and r*sin(theta), lie within 2/aperture of 0.    *)
(* Values are in units of 1/Q.                                             *)
PreClip(aperture) == (0 - ((2 * Q) \div aperture))..((2 * Q) \div aperture)

(* self.x for a cell whose r*cos(theta) is v/Q, in units of 1/(2*Q) *)
XCoord(v, side) == (0 - Clip(v) + Q) * side

(* self.y for a cell whose r*sin(theta) is v/Q, in units of 1/(2*Q) *)
YCoord(v, side) == (Clip(v) + Q) * side

(* the column bands of unwarp_pair, as 0-based column indices of a warped  *)
(* frame of width W                                                        *)
la(W, b) == PySlice(W, 0, b)
lb(W, b) == PySlice(W, b, b * 2)
(* lc stopping one blend width late *)
lc_Late(W, b) == PySlice(W, b * 2, 0 - b)

lc(W, b) == PySlice(W, b * 2, 0 - b * 2)
ld(W, b) == PySlice(W, 0 - b * 2, W)

ra(W, b) == PySlice(W, 0, b * 2)
rb(W, b) == PySlice(W, b * 2, 0 - b * 2)
rc(W, b) == PySlice(W, 0 - b * 2, 0 - b)
(* rd taking the band of rc *)
rd_AsRc(W, b) == PySlice(W, 0 - b * 2, 0 - b)

rd(W, b) == PySlice(W, 0 - b, W)

fd(b) == Linspace(1, 0, b * 2)
(* fu falling like fd *)
fu_Falling(b) == Linspace(1, 0, b * 2)

fu(b) == Linspace(0, 1, b * 2)

(* cols * wts elementwise along the column axis, with broadcasting *)
Mul(cols, wts) ==
    LET k == Len(cols)
        m == Len(wts)
        n == Broadcast(k, m)
    IN  IF n < 0 THEN [ok |-> FALSE, t |-> <<>>]
        ELSE [ok |-> TRUE,
              t |-> [j \in 1..n |-> [col |-> cols[BIdx(j, k)], w |-> wts[BIdx(j, m)]]]]

(* lcols * lw + rcols * rw: one output column per position, each naming    *)
(* the left column and weight and the right column and weight it is made of*)
Crossfade(lcols, lw, rcols, rw) ==
    LET P == Mul(lcols, lw)
        R == Mul(rcols, rw)
        n == Broadcast(Len(P.t), Len(R.t))
    IN  IF ~P.ok \/ ~R.ok \/ n < 0 THEN [ok |-> FALSE, t |-> <<>>]
        ELSE [ok |-> TRUE,
              t |-> [j \in 1..n |->
                      [l  |-> P.t[BIdx(j, Len(P.t))].col,
                       lw |-> P.t[BIdx(j, Len(P.t))].w,
                       r  |-> R.t[BIdx(j, Len(R.t))].col,
                       rw |-> R.t[BIdx(j, Len(R.t))].w]]]

(* a band copied from the left (right) warped frame unchanged *)
FromLeft(cols, den) == [j \in 1..Len(cols) |-> [l |-> cols[j], lw |-> den, r |-> -1, rw |-> 0]]
FromRight(cols, den) == [j \in 1..Len(cols) |-> [l |-> -1, lw |-> 0, r |-> cols[j], rw |-> den]]

(* unwarp_pair on an object with map width W and blending b: the output    *)
(* frame as its sequence of columns (weights over den), or not ok when the *)
(* call raises                                                             *)
UnwarpPair(W, b) ==
    IF ~fd(b).ok \/ ~fu(b).ok THEN [ok |-> FALSE, den |-> 1, cols |-> <<>>]
    ELSE
    LET den == fd(b).den
        B1 == Crossfade(lb(W, b), SeqSlice(fu(b).w, b, b * 2),
                        rd(W, b), SeqSlice(fd(b).w, b, b * 2))
        B3 == Crossfade(ld(W, b), fd(b).w, ra(W, b), fu(b).w)
        B5 == Crossfade(la(W, b), SeqSlice(fu(b).w, 0, b),
                        rc(W, b), SeqSlice(fd(b).w, 0, b))
    IN  IF ~B1.ok \/ ~B3.ok \/ ~B5.ok THEN [ok |-> FALSE, den |-> 1, cols |-> <<>>]
        ELSE [ok |-> TRUE, den |-> den,
              cols |-> B1.t \o FromLeft(lc(W, b), den) \o B3.t
                       \o FromRight(rb(W, b), den) \o B5.t]

(***************************************************************************)
(* FrameSpec: __init__ and unwarp_pair applied to bounded inputs           *)
(***************************************************************************)

NoFrame == [ok |-> FALSE, den |-> 1, cols |-> <<>>]
NoCtor == [n |-> 0, side |-> 0, blending |-> 0, aperture |-> 0]
NoArgs == [height |-> 0, blending |-> 0, aperture |-> 0, skip_left |-> 0,
           skip_right |-> 0, n_frames |-> 0, fisheye |-> FALSE]
NoSrc == [input_width |-> 0, leftLen |-> 0, rightLen |-> 0,
          leftTail |-> FALSE, rightTail |-> FALSE]
NoProcs == [left |-> "none", right |-> "none", out |-> "none"]

PipeIdle ==
    /\ args = NoArgs /\ src = NoSrc /\ pc = "idle" /\ i = 0
    /\ leftPos = 0 /\ rightPos = 0 /\ sink = <<>>
    /\ unwarp = NoObject /\ procs = NoProcs /\ err = "none"

FrameIdle ==
    /\ ctor = NoCtor /\ self = NoObject /\ out = NoFrame /\ fpc = "idle"

FrameInit ==
    /\ PipeIdle
    /\ ctor \in [n : 0..MaxN, side : 1..MaxSide, blending : 0..MaxB,
                  aperture : 1..MaxAperture]
    /\ self = NoObject
    /\ out = NoFrame
    /\ fpc = "new"

(* FisheyeToEquirectangular(n, side, blending, aperture) returns; one cell *)
(* of the grids is kept: its pre-clip values vx, vy and its self.x, self.y *)
Construct ==
    /\ fpc = "new"
    /\ LET obj == FisheyeInit(ctor.n, ctor.side, ctor.blending, ctor.aperture)
       IN  /\ obj.ok
           /\ \E vx \in PreClip(ctor.aperture), vy \in PreClip(ctor.aperture) :
                 self' = [ok |-> TRUE, obj |-> obj, vx |-> vx, vy |-> vy,
                          x |-> XCoord(vx, ctor.side), y |-> YCoord(vy, ctor.side)]
    /\ fpc' = "built"
    /\ UNCHANGED <<ctor, out>>
    /\ UNCHANGED pipeVars

(* the constructor raises *)
ConstructRaises ==
    /\ fpc = "new"
    /\ ~FisheyeInit(ctor.n, ctor.side, ctor.blending, ctor.aperture).ok
    /\ fpc' = "raised"
    /\ UNCHANGED <<ctor, self, out>>
    /\ UNCHANGED pipeVars

(* unwarp_pair(left, right) returns a frame *)
UnwarpPairReturns ==
    /\ fpc = "built"
    /\ UnwarpPair(self.obj.cols, self.obj.blending).ok
    /\ out' = UnwarpPair(self.obj.cols, self.obj.blending)
    /\ fpc' = "blended"
    /\ UNCHANGED <<ctor, self>>
    /\ UNCHANGED pipeVars

(* unwarp_pair(left, right) raises *)
UnwarpPairRaises ==
    /\ fpc = "built"
    /\ ~UnwarpPair(self.obj.cols, self.obj.blending).ok
    /\ fpc' = "blend_raised"
    /\ UNCHANGED <<ctor, self, out>>
    /\ UNCHANGED pipeVars

FrameNext ==
    \/ Construct
    \/ ConstructRaises
    \/ UnwarpPairReturns
    \/ UnwarpPairRaises

FrameSpec == FrameInit /\ [][FrameNext]_vars

(***************************************************************************)
(* unwarp.py main(): the dual-stream pipeline, lines 131-223               *)
(***************************************************************************)

(* default of the aperture parameter of FisheyeToEquirectangular.__init__ *)
DefaultAperture == 1

(* vframes given to the left and right decode process *)
vframesLeft == args.skip_left + args.n_frames
vframesRight == args.skip_right + args.n_frames

(* get_input_process: whole frames the decode process puts on its pipe,    *)
(* for a stream of len whole frames; vframes limits it unless it is 0      *)
Avail(len, vframes) == IF vframes # 0 THEN Min(len, vframes) ELSE len

(* whether a partial frame follows the whole frames on the pipe *)
HasTail(len, tail, vframes) == tail /\ (vframes = 0 \/ len < vframes)

(* stdout.read(byte_count) at chunk position pos: a whole frame (named by  *)
(* its 0-based number), then the partial tail if any, then nothing         *)
Read(pos, avail, tail) ==
    IF pos < avail THEN [kind |-> "full", frame |-> pos, pos |-> pos + 1]
    ELSE IF tail /\ pos = avail THEN [kind |-> "partial", frame |-> pos, pos |-> pos + 1]
    ELSE [kind |-> "empty", frame |-> pos, pos |-> pos]

LeftRead == Read(leftPos, Avail(src.leftLen, vframesLeft),
                 HasTail(src.leftLen, src.leftTail, vframesLeft))
RightRead == Read(rightPos, Avail(src.rightLen, vframesRight),
                  HasTail(src.rightLen, src.rightTail, vframesRight))

(* the emptiness test never firing *)
NotBytes_Never(rd_) == FALSE

(* not left_bytes / not right_bytes *)
NotBytes(rd_) == rd_.kind = "empty"

(* np.frombuffer(bytes).reshape([input_height, input_width, 3]) succeeds *)
Reshapes(rd_) == rd_.kind = "full"

(* lengths of the three loops *)
SkipLeftRange == args.skip_left
(* the right skip loop running over the left skip count *)
SkipRightRange_Left == args.skip_left

SkipRightRange == args.skip_right
StreamRange == args.n_frames

(* the object main() builds at line 152 *)
MainUnwarp == FisheyeInit(args.height, src.input_width, args.blending, DefaultAperture)

(* out_frame of one iteration: its width, or not ok when unwarp_pair raises*)
OutFrame ==
    IF args.fisheye THEN [ok |-> TRUE, width |-> 2 * args.height]
    ELSE LET o == UnwarpPair(unwarp.cols, unwarp.blending)
         IN  [ok |-> o.ok, width |-> Len(o.cols)]

Init ==
    /\ FrameIdle
    /\ args \in [height : {0, MaxHeight}, blending : 0..MaxBlend,
                  aperture : 0..MaxAperture, skip_left : 0..MaxSkip,
                  skip_right : 0..MaxSkip, n_frames : 0..MaxFrames,
                  fisheye : BOOLEAN]
    /\ src \in [input_width : {MaxSide}, leftLen : 0..MaxLen, rightLen : 0..MaxLen,
                 leftTail : BOOLEAN, rightTail : BOOLEAN]
    /\ pc = "start"
    /\ i = 0
    /\ leftPos = 0
    /\ rightPos = 0
    /\ sink = <<>>
    /\ unwarp = NoObject
    /\ procs = NoProcs
    /\ err = "none"

Running == [left |-> "running", right |-> "running", out |-> "running"]

(* lines 131-152: the three processes are started, the map is built *)
Start ==
    /\ pc = "start"
    /\ MainUnwarp.ok
    /\ procs' = Running
    /\ unwarp' = MainUnwarp
    /\ pc' = "skip_left"
    /\ UNCHANGED <<args, src, i, leftPos, rightPos, sink, err>>
    /\ UNCHANGED frameVars

(* lines 131-152 when the constructor raises *)
StartRaises ==
    /\ pc = "start"
    /\ ~MainUnwarp.ok
    /\ procs' = Running
    /\ pc' = "error"
    /\ err' = "config"
    /\ UNCHANGED <<args, src, i, leftPos, rightPos, sink, unwarp>>
    /\ UNCHANGED frameVars

(* lines 157-158: one read of the left skip loop *)
SkipLeftRead ==
    /\ pc = "skip_left"
    /\ i < SkipLeftRange
    /\ leftPos' = LeftRead.pos
    /\ i' = i + 1
    /\ UNCHANGED <<args, src, pc, rightPos, sink, unwarp, procs, err>>
    /\ UNCHANGED frameVars

SkipLeftDone ==
    /\ pc = "skip_left"
    /\ i >= SkipLeftRange
    /\ pc' = "skip_right"
    /\ i' = 0
    /\ UNCHANGED <<args, src, leftPos, rightPos, sink, unwarp, procs, err>>
    /\ UNCHANGED frameVars

(* lines 163-164: one read of the right skip loop *)
SkipRightRead ==
    /\ pc = "skip_right"
    /\ i < SkipRightRange
    /\ rightPos' = RightRead.pos
    /\ i' = i + 1
    /\ UNCHANGED <<args, src, pc, leftPos, sink, unwarp, procs, err>>
    /\ UNCHANGED frameVars

SkipRightDone ==
    /\ pc = "skip_right"
    /\ i >= SkipRightRange
    /\ pc' = "stream"
    /\ i' = 0
    /\ UNCHANGED <<args, src, leftPos, rightPos, sink, unwarp, procs, err>>
    /\ UNCHANGED frameVars

(* lines 170-181: both reads, then break on an empty one *)
StreamEndOfInput ==
    /\ pc = "stream"
    /\ i < StreamRange
    /\ NotBytes(LeftRead) \/ NotBytes(RightRead)
    /\ leftPos' = LeftRead.pos
    /\ rightPos' = RightRead.pos
    /\ pc' = "closing"
    /\ UNCHANGED <<args, src, i, sink, unwarp, procs, err>>
    /\ UNCHANGED frameVars

(* lines 170-193: both reads return bytes, one of them not a whole frame:  *)
(* reshape raises ValueError                                               *)
StreamReshapeRaises ==
    /\ pc = "stream"
    /\ i < StreamRange
    /\ ~NotBytes(LeftRead) /\ ~NotBytes(RightRead)
    /\ ~Reshapes(LeftRead) \/ ~Reshapes(RightRead)
    /\ leftPos' = LeftRead.pos
    /\ rightPos' = RightRead.pos
    /\ pc' = "error"
    /\ err' = "reshape"
    /\ UNCHANGED <<args, src, i, sink, unwarp, procs>>
    /\ UNCHANGED frameVars

(* lines 170-201: two whole frames, unwarp_pair raises *)
StreamBlendRaises ==
    /\ pc = "stream"
    /\ i < StreamRange
    /\ Reshapes(LeftRead) /\ Reshapes(RightRead)
    /\ ~OutFrame.ok
    /\ leftPos' = LeftRead.pos
    /\ rightPos' = RightRead.pos
    /\ pc' = "error"
    /\ err' = "blend"
    /\ UNCHANGED <<args, src, i, sink, unwarp, procs>>
    /\ UNCHANGED frameVars

(* lines 170-207: two whole frames are blended and written to the sink *)
StreamWrite ==
    /\ pc = "stream"
    /\ i < StreamRange
    /\ Reshapes(LeftRead) /\ Reshapes(RightRead)
    /\ OutFrame.ok
    /\ leftPos' = LeftRead.pos
    /\ rightPos' = RightRead.pos
    /\ sink' = Append(sink, [l |-> LeftRead.frame, r |-> RightRead.frame,
                              width |-> OutFrame.width])
    /\ i' = i + 1
    /\ UNCHANGED <<args, src, pc, unwarp, procs, err>>
    /\ UNCHANGED frameVars

(* lines 170-207 when out_process.stdin.write raises *)
StreamWriteFails ==
    /\ pc = "stream"
    /\ i < StreamRange
    /\ Reshapes(LeftRead) /\ Reshapes(RightRead)
    /\ OutFrame.ok
    /\ leftPos' = LeftRead.pos
    /\ rightPos' = RightRead.pos
    /\ pc' = "error"
    /\ err' = "write"
    /\ UNCHANGED <<args, src, i, sink, unwarp, procs>>
    /\ UNCHANGED frameVars

(* the range of the frame loop is exhausted *)
StreamDone ==
    /\ pc = "stream"
    /\ i >= StreamRange
    /\ pc' = "closing"
    /\ UNCHANGED <<args, src, i, leftPos, rightPos, sink, unwarp, procs, err>>
    /\ UNCHANGED frameVars

(* lines 216-218 *)
CloseAll ==
    /\ pc = "closing"
    /\ procs' = [left |-> "closed", right |-> "closed", out |-> "closed"]
    /\ pc' = "waiting"
    /\ UNCHANGED <<args, src, i, leftPos, rightPos, sink, unwarp, err>>
    /\ UNCHANGED frameVars

(* lines 221-223 *)
WaitAll ==
    /\ pc = "waiting"
    /\ procs' = [left |-> "waited", right |-> "waited", out |-> "waited"]
    /\ pc' = "done"
    /\ UNCHANGED <<args, src, i, leftPos, rightPos, sink, unwarp, err>>
    /\ UNCHANGED frameVars

(* lines 298-301: KeyboardInterrupt between two steps of the loops ends    *)
(* main(); the handler is pass                                             *)
Interrupt ==
    /\ pc \in {"skip_left", "skip_right", "stream"}
    /\ pc' = "interrupted"
    /\ UNCHANGED <<args, src, i, leftPos, rightPos, sink, unwarp, procs, err>>
    /\ UNCHANGED frameVars

Next ==
    \/ Start
    \/ StartRaises
    \/ SkipLeftRead
    \/ SkipLeftDone
    \/ SkipRightRead
    \/ SkipRightDone
    \/ StreamEndOfInput
    \/ StreamReshapeRaises
    \/ StreamBlendRaises
    \/ StreamWrite
    \/ StreamWriteFails
    \/ StreamDone
    \/ CloseAll
    \/ WaitAll
    \/ Interrupt

Spec == Init /\ [][Next]_vars

(***************************************************************************)
(* Properties of Spec                                                      *)
(***************************************************************************)

Min3(a, b, c) == Min(a, Min(b, c))

(* chunks a source delivers: its whole frames, then the partial tail *)
LeftChunks == Avail(src.leftLen, vframesLeft)
              + (IF HasTail(src.leftLen, src.leftTail, vframesLeft) THEN 1 ELSE 0)
RightChunks == Avail(src.rightLen, vframesRight)
               + (IF HasTail(src.rightLen, src.rightTail, vframesRight) THEN 1 ELSE 0)

(* whole frames of each source file that follow the skipped ones *)
LeftRemaining == Max(src.leftLen - args.skip_left, 0)
RightRemaining == Max(src.rightLen - args.skip_right, 0)

(* C1: nothing is written while skipping; the frame loop starts with       *)
(* skip_left chunks of the left source and skip_right of the right one     *)
(* consumed (all of a source shorter than that); while streaming, frame    *)
(* loop iteration i has written i frames; and the k-th frame written       *)
(* (0-based) is made of left frame skip_left+k and right frame             *)
(* skip_right+k.                                                           *)
C1_AlignedPairing ==
    /\ pc \in {"start", "skip_left", "skip_right"} => sink = <<>>
    /\ (pc = "stream" /\ i = 0) =>
          /\ leftPos = Min(args.skip_left, LeftChunks)
          /\ rightPos = Min(args.skip_right, RightChunks)
    /\ pc = "stream" => Len(sink) = i
    /\ \A k \in 1..Len(sink) :
          /\ sink[k].l = args.skip_left + (k - 1)
          /\ sink[k].r = args.skip_right + (k - 1)

(* two frames written after skipping two left frames and one right frame *)
C1_Witness ==
    /\ Len(sink) = 2
    /\ args.skip_left = 2 /\ args.skip_right = 1
    /\ sink[1].l = 2 /\ sink[1].r = 1
    /\ sink[2].l = 3 /\ sink[2].r = 2

C3_ShortReadEndsNormally ==
    [][(/\ pc = "stream"
        /\ i < StreamRange
        /\ (LeftRead.kind # "full" \/ RightRead.kind # "full")
        /\ pc' # "interrupted")
       => (pc' = "closing" /\ sink' = sink /\ err' = "none")]_vars

(* C4: whenever the run has ended - normally, by an error or by an         *)
(* interrupt - all three processes have been closed and awaited.           *)
C4_CleanupOnEveryExit ==
    pc \in {"done", "error", "interrupted"} =>
        procs = [left |-> "waited", right |-> "waited", out |-> "waited"]

(* the configurations section 7 calls invalid *)
InvalidArgs ==
    \/ args.height <= 0
    \/ src.input_width <= 0
    \/ args.blending < 0
    \/ 2 * args.blending >= args.height
    \/ args.aperture <= 0

(* C6: with an invalid configuration no map is built, no frame is read and *)
(* none is written; the run stops with an error at the start.              *)
C6_InvalidConfigRejected ==
    InvalidArgs =>
        /\ pc \in {"start", "error"}
        /\ unwarp = NoObject
        /\ leftPos = 0 /\ rightPos = 0
        /\ sink = <<>>

(* C7: the map of a run is the one built for the configured height, side,  *)
(* blend and aperture, and it is never replaced.                           *)
C7_MapOfConfiguredAperture ==
    (unwarp.ok /\ args.aperture > 0) =>
        unwarp = FisheyeInit(args.height, src.input_width, args.blending, args.aperture)

(***************************************************************************)
(* Properties of FrameSpec                                                 *)
(***************************************************************************)

(* the inputs section 4.1 calls valid *)
ValidCtor ==
    /\ ctor.n >= 2
    /\ ctor.side >= 1
    /\ ctor.blending >= 0
    /\ 2 * ctor.blending < ctor.n
    /\ ctor.aperture > 0

Constructed == fpc \in {"built", "blended", "blend_raised"}
Applied == fpc \in {"blended", "blend_raised"}

(* C8: for valid inputs the constructor returns grids of n rows and        *)
(* n + 2*blending columns, and the x and y coordinate of every cell lies   *)
(* in [0, side] (here in units of 1/(2*Q)).                                *)
C8_MapShapeAndRange ==
    ValidCtor =>
        /\ fpc # "raised"
        /\ Constructed =>
              /\ self.obj.rows = ctor.n
              /\ self.obj.cols = ctor.n + 2 * ctor.blending
              /\ 0 <= self.x /\ self.x <= 2 * Q * ctor.side
              /\ 0 <= self.y /\ self.y <= 2 * Q * ctor.side

(* a valid map with padding whose kept cell was clamped on both axes *)
C8_Witness ==
    /\ fpc = "built" /\ ValidCtor /\ ctor.blending >= 1
    /\ self.vx > Q /\ self.x = 0
    /\ self.vy > Q /\ self.y = 2 * Q * ctor.side

StatedL(o, W, b) ==
    IF o < b THEN b + o
    ELSE IF o < W - 3 * b THEN b + o
    ELSE IF o < W - b THEN b + o
    ELSE IF o < 2 * W - 5 * b THEN -1
    ELSE o - (2 * W - 5 * b)

StatedR(o, W, b) ==
    IF o < b THEN W - 2 * b + o
    ELSE IF o < W - 3 * b THEN -1
    ELSE IF o < W - b THEN o - (W - 3 * b)
    ELSE IF o < 2 * W - 5 * b THEN 2 * b + (o - (W - b))
    ELSE W - 2 * b + (o - (2 * W - 5 * b))

(* C9 as stated: band 1 crossfades left[b,2b) with right[W-2b,W-b), the    *)
(* left weight rising from 0; the other bands as listed.                   *)
C9_BandsAsStated ==
    (ValidCtor /\ ctor.blending >= 1 /\ fpc = "blended") =>
        LET W == self.obj.cols
            b == ctor.blending
        IN  /\ Len(out.cols) = 2 * W - 4 * b
            /\ \A o \in 1..Len(out.cols) :
                  /\ out.cols[o].l = StatedL(o - 1, W, b)
                  /\ out.cols[o].r = StatedR(o - 1, W, b)
            /\ out.cols[1].lw = 0

(* the bands of the code, with weights as numerators over den = 2b - 1 *)
BandL(o, W, b) == StatedL(o, W, b)

BandR(o, W, b) == IF o < b THEN W - b + o ELSE StatedR(o, W, b)

BandLW(o, W, b) ==
    IF o < b THEN b + o
    ELSE IF o < W - 3 * b THEN 2 * b - 1
    ELSE IF o < W - b THEN (2 * b - 1) - (o - (W - 3 * b))
    ELSE IF o < 2 * W - 5 * b THEN 0
    ELSE o - (2 * W - 5 * b)

BandRW(o, W, b) ==
    IF o < b THEN (2 * b - 1) - (b + o)
    ELSE IF o < W - 3 * b THEN 0
    ELSE IF o < W - b THEN o - (W - 3 * b)
    ELSE IF o < 2 * W - 5 * b THEN 2 * b - 1
    ELSE (2 * b - 1) - (o - (2 * W - 5 * b))

(* C9 amended: band 1 crossfades left[b,2b) with right[W-b,W) over the     *)
(* upper half of the ramps (left weight b/(2b-1) up to 1, right weight     *)
(* (b-1)/(2b-1) down to 0); band 2 is left[2b,W-2b); band 3 crossfades     *)
(* left[W-2b,W) falling with right[0,2b) rising over the whole ramps;      *)
(* band 4 is right[2b,W-2b); band 5 crossfades right[W-2b,W-b) with        *)
(* left[0,b) over the lower half of the ramps (right weight 1 down to      *)
(* b/(2b-1), left weight 0 up to (b-1)/(2b-1)).                            *)
C9_BandsAmended ==
    (ValidCtor /\ ctor.blending >= 1 /\ fpc = "blended") =>
        LET W == self.obj.cols
            b == ctor.blending
        IN  /\ Len(out.cols) = 2 * W - 4 * b
            /\ out.den = 2 * b - 1
            /\ \A o \in 1..Len(out.cols) :
                  out.cols[o] = [l  |-> BandL(o - 1, W, b),
                                 lw |-> BandLW(o - 1, W, b),
                                 r  |-> BandR(o - 1, W, b),
                                 rw |-> BandRW(o - 1, W, b)]

(* a blended frame with all five bands at least two columns wide *)
C9_Witness ==
    /\ fpc = "blended" /\ ValidCtor /\ ctor.blending >= 2
    /\ self.obj.cols - 4 * ctor.blending >= 2
    /\ out.cols[1].r = self.obj.cols - ctor.blending
    /\ out.cols[1].l = ctor.blending

(* the output columns made from both frames *)
Crossfaded == {o \in 1..Len(out.cols) : out.cols[o].l # -1 /\ out.cols[o].r # -1}

(* C10: for b >= 1 the two ramps sum to 1 at every c in [0, 2b) and the    *)
(* left and right weight of every crossfaded output column sum to 1.       *)
C10_WeightsSumToOne ==
    (ctor.blending >= 1 /\ fpc = "blended") =>
        /\ fd(ctor.blending).den = fu(ctor.blending).den
        /\ \A c \in 1..(2 * ctor.blending) :
              fd(ctor.blending).w[c] + fu(ctor.blending).w[c] = fd(ctor.blending).den
        /\ \A o \in Crossfaded : out.cols[o].lw + out.cols[o].rw = out.den

(* a blended frame with a column in which both weights are strictly        *)
(* between 0 and 1, in each of the three crossfaded bands                  *)
C10_Witness ==
    /\ fpc = "blended" /\ ValidCtor /\ ctor.blending >= 2
    /\ Cardinality(Crossfaded) = 4 * ctor.blending
    /\ \E o \in Crossfaded : o <= ctor.blending
           /\ 0 < out.cols[o].lw /\ 0 < out.cols[o].rw
    /\ \E o \in Crossfaded : o > Len(out.cols) - ctor.blending
           /\ 0 < out.cols[o].lw /\ 0 < out.cols[o].rw
    /\ \E o \in Crossfaded : o > ctor.blending /\ o <= Len(out.cols) - ctor.blending
           /\ 0 < out.cols[o].lw /\ 0 < out.cols[o].rw

====
